---- MODULE Spec2Model ----
(***************************************************************************)
(* A model of the splash-can Vulkan engine: the render loop of             *)
(* engine/src/lib.rs (draw_frame), the GPU and presentation engine it      *)
(* talks to, the event loop of gui/src/lib.rs that drives it, the          *)
(* teardown in Drop for VulkanEngine, the device selection of             *)
(* pick_physical_device and the swapchain configuration of                 *)
(* create_swapchain.                                                       *)
(***************************************************************************)
EXTENDS Integers, Sequences, FiniteSets, TLC

VARIABLES
    validation_layers_enabled, \* VulkanEngine.validation_layers_enabled
    swapchain_images,          \* number of images the swapchain returned
    current_frame,             \* VulkanEngine.current_frame
    in_flight_fences,          \* slot -> fence is signaled
    image_available_semaphores,\* slot -> semaphore is signaled
    render_finished_semaphores,\* slot -> semaphore is signaled
    image_index,               \* draw_frame's local image_index
    sub_optimal,               \* calls of the running tick that returned
                               \* Ok with the suboptimal flag set
    images,                    \* image -> "free" | "acquired" | "presented"
    gpu,                       \* outstanding asynchronous operations
    present_queue,             \* present requests not yet performed, in order
    pc,                        \* position of the single CPU thread
    control_flow,              \* winit ControlFlow: "Poll" | "Exit"
    event,                     \* last event the closure was called with
    calls,                     \* API calls of the current (or last) tick
    armed,                     \* slot -> a submission has armed the fence
    destroyed,                 \* handles destroyed by Drop, in order
    devices,                   \* enumerate_physical_devices()
    picked,                    \* result of pick_physical_device
    surface,                   \* what the surface and the window report
    swapchain,                 \* result of create_swapchain
    env                        \* the environment's VALIDATION_LAYERS entry

vars == <<validation_layers_enabled, swapchain_images, current_frame,
          in_flight_fences, image_available_semaphores,
          render_finished_semaphores, image_index, sub_optimal, images, gpu,
          present_queue, pc, control_flow, event, calls, armed, destroyed,
          devices, picked, surface, swapchain, env>>

engineVars == <<validation_layers_enabled, swapchain_images, current_frame,
                in_flight_fences, image_available_semaphores,
                render_finished_semaphores, image_index, sub_optimal,
                images, gpu, present_queue, pc, control_flow, event, calls, armed,
                destroyed>>

pickVars == <<devices, picked>>

swapVars == <<surface, swapchain>>

mainVars == <<env>>

\* The environment's entry for VALIDATION_LAYERS: absent, or a value that
\* is valid Unicode (its text is kept) or is not.
Unset == [set |-> FALSE]
Var(text) == [set |-> TRUE, unicode |-> TRUE, text |-> text]
NotUnicode == [set |-> TRUE, unicode |-> FALSE]
EnvValues ==
    {Unset, NotUnicode}
    \cup {Var(t) : t \in {"1", "0", "", "2", "true", "01"}}

\* env::var: Ok(text) for a present, valid Unicode value, Err otherwise.
env_var(v) ==
    IF v.set /\ v.unicode
    THEN [ok |-> TRUE, text |-> v.text]
    ELSE [ok |-> FALSE]
\* env::var("VALIDATION_LAYERS").unwrap_or("0".to_string())
validation_layers_env_var(v) ==
    IF env_var(v).ok THEN env_var(v).text ELSE "0"

\* ---------------------------------------------------------------- bounds
\* Largest number of images a swapchain returns.
MaxImages == 3
\* Longest list of physical devices.
MaxDevices == 2
\* Largest number of queue families of a device.
MaxFamilies == 2
\* Largest small image count a surface reports (the largest values of the
\* type are reported as well).
MaxCount == 2
\* Longest list of present modes.
MaxModes == 2
\* Longest list of surface formats.
MaxFormats == 2

\* ------------------------------------------------------------- constants
MAX_FRAMES_IN_FLIGHT == 2

Slots == 0 .. (MAX_FRAMES_IN_FLIGHT - 1)
Images == 0 .. (swapchain_images - 1)
NoImage == -1


\* ------------------------------------------------------- object handles
\* A handle is <<kind, index>>; per-image and per-slot objects are indexed.
PerImage(kind, n) == [k \in 1 .. n |-> <<kind, k - 1>>]

\* The sync objects in the order create_sync_objects pushes them:
\* for each slot the image-available semaphore, the render-finished
\* semaphore, the fence.
create_sync_objects ==
    [j \in 1 .. (3 * MAX_FRAMES_IN_FLIGHT) |->
        LET i == (j - 1) \div 3
            r == (j - 1) % 3
        IN  <<CASE r = 0 -> "image_available_semaphore"
                [] r = 1 -> "render_finished_semaphore"
                [] OTHER -> "in_flight_fence", i>>]

\* Fences are created with FenceCreateFlags::SIGNALED.
FenceCreateSignaledUnset == FALSE
FenceCreateSignaled == TRUE

\* A startup that allocates one command buffer per frame in flight.
newCommandBufferPerSlot(v, n) ==
    <<<<"instance", 0>>>>
    \o (IF v THEN <<<<"debug_messenger", 0>>>> ELSE <<>>)
    \o <<<<"surface", 0>>, <<"device", 0>>, <<"swapchain", 0>>,
         <<"render_pass", 0>>>>
    \o PerImage("image_view", n)
    \o <<<<"pipeline_layout", 0>>, <<"pipeline", 0>>>>
    \o PerImage("framebuffer", n)
    \o <<<<"command_pool", 0>>>>
    \o PerImage("command_buffer", MAX_FRAMES_IN_FLIGHT)
    \o create_sync_objects
\* The objects VulkanEngine::new creates, in creation order, for the given
\* validation toggle v and n swapchain images.
new(v, n) ==
    <<<<"instance", 0>>>>
    \o (IF v THEN <<<<"debug_messenger", 0>>>> ELSE <<>>)
    \o <<<<"surface", 0>>, <<"device", 0>>, <<"swapchain", 0>>,
         <<"render_pass", 0>>>>
    \o PerImage("image_view", n)
    \o <<<<"pipeline_layout", 0>>, <<"pipeline", 0>>>>
    \o PerImage("framebuffer", n)
    \o <<<<"command_pool", 0>>>>
    \o PerImage("command_buffer", n)
    \o create_sync_objects

\* The handles an object was created from or, for a command buffer, has
\* recorded references to (the arguments of the creation calls in new).
Uses(h) ==
    LET kind == h[1]
        k == h[2]
        dev == {<<"device", 0>>}
    IN  CASE kind = "instance" -> {}
          [] kind = "debug_messenger" -> {<<"instance", 0>>}
          [] kind = "surface" -> {<<"instance", 0>>}
          [] kind = "device" -> {<<"instance", 0>>}
          [] kind = "swapchain" -> dev \cup {<<"surface", 0>>}
          [] kind = "render_pass" -> dev
          [] kind = "image_view" -> dev \cup {<<"swapchain", 0>>}
          [] kind = "pipeline_layout" -> dev
          [] kind = "pipeline" ->
                dev \cup {<<"pipeline_layout", 0>>, <<"render_pass", 0>>}
          [] kind = "framebuffer" ->
                dev \cup {<<"render_pass", 0>>, <<"image_view", k>>}
          [] kind = "command_pool" -> dev
          [] kind = "command_buffer" ->
                dev \cup {<<"command_pool", 0>>, <<"render_pass", 0>>,
                          <<"framebuffer", k>>, <<"pipeline", 0>>}
          [] OTHER -> dev

\* The sync objects in the order Drop destroys them.
DropSyncObjects ==
    [j \in 1 .. (3 * MAX_FRAMES_IN_FLIGHT) |->
        LET i == (j - 1) \div 3
            r == (j - 1) % 3
        IN  <<CASE r = 0 -> "image_available_semaphore"
                [] r = 1 -> "render_finished_semaphore"
                [] OTHER -> "in_flight_fence", i>>]

\* A teardown that destroys the surface before the logical device.
DropOrderSurfaceBeforeDevice(v, n) ==
    DropSyncObjects
    \o <<<<"command_pool", 0>>>>
    \o PerImage("framebuffer", n)
    \o <<<<"pipeline", 0>>, <<"pipeline_layout", 0>>, <<"render_pass", 0>>>>
    \o PerImage("image_view", n)
    \o <<<<"swapchain", 0>>, <<"surface", 0>>, <<"device", 0>>>>
    \o (IF v THEN <<<<"debug_messenger", 0>>>> ELSE <<>>)
    \o <<<<"instance", 0>>>>
\* A teardown that destroys the render pass before the framebuffers.
DropOrderRenderPassFirst(v, n) ==
    DropSyncObjects
    \o <<<<"command_pool", 0>>>>
    \o <<<<"render_pass", 0>>>>
    \o PerImage("framebuffer", n)
    \o <<<<"pipeline", 0>>, <<"pipeline_layout", 0>>>>
    \o PerImage("image_view", n)
    \o <<<<"swapchain", 0>>, <<"device", 0>>, <<"surface", 0>>>>
    \o (IF v THEN <<<<"debug_messenger", 0>>>> ELSE <<>>)
    \o <<<<"instance", 0>>>>
\* A Drop that destroys the debug messenger whatever the toggle says.
DropOrderMessengerAlways(v, n) ==
    DropSyncObjects
    \o <<<<"command_pool", 0>>>>
    \o PerImage("framebuffer", n)
    \o <<<<"pipeline", 0>>, <<"pipeline_layout", 0>>, <<"render_pass", 0>>>>
    \o PerImage("image_view", n)
    \o <<<<"swapchain", 0>>, <<"device", 0>>, <<"surface", 0>>>>
    \o <<<<"debug_messenger", 0>>>>
    \o <<<<"instance", 0>>>>
\* The destroy calls of Drop for VulkanEngine, in order.
DropOrder(v, n) ==
    DropSyncObjects
    \o <<<<"command_pool", 0>>>>
    \o PerImage("framebuffer", n)
    \o <<<<"pipeline", 0>>, <<"pipeline_layout", 0>>, <<"render_pass", 0>>>>
    \o PerImage("image_view", n)
    \o <<<<"swapchain", 0>>, <<"device", 0>>, <<"surface", 0>>>>
    \o (IF v THEN <<<<"debug_messenger", 0>>>> ELSE <<>>)
    \o <<<<"instance", 0>>>>

Range(s) == {s[j] : j \in 1 .. Len(s)}
Created == Range(new(validation_layers_enabled, swapchain_images))
\* Destroying the command pool frees the command buffers allocated from it.
Gone ==
    Range(destroyed)
    \cup (IF <<"command_pool", 0>> \in Range(destroyed)
          THEN Range(PerImage("command_buffer", swapchain_images)) ELSE {})
Live == Created \ Gone

\* ------------------------------------------------------------ the engine
\* Asynchronous operations the engine has handed to the GPU and to the
\* presentation engine and that have not completed.
Op(kind, slot, image, stage) ==
    [kind |-> kind, slot |-> slot, image |-> image, stage |-> stage]

Submissions == {op \in gpu : op.kind = "submit"}
Presents ==
    {Op("present", present_queue[j][1], present_queue[j][2], "queued") :
        j \in 1 .. Len(present_queue)}
\* Work on the device's queues: what device_wait_idle waits for.
QueueWork == Submissions \cup Presents

InTick == pc \in {"wait", "acquire", "reset", "submit", "present", "advance"}

\* The state VulkanEngine::new leaves behind (current_frame: 1, fences
\* signaled, semaphores unsignaled, nothing acquired, nothing submitted).
EngineInit ==
    /\ validation_layers_enabled \in BOOLEAN
    /\ swapchain_images \in 1 .. MaxImages
    /\ current_frame = 1
    /\ in_flight_fences = [i \in Slots |-> FenceCreateSignaled]
    /\ image_available_semaphores = [i \in Slots |-> FALSE]
    /\ render_finished_semaphores = [i \in Slots |-> FALSE]
    /\ image_index = NoImage
    /\ sub_optimal = {}
    /\ images = [k \in Images |-> "free"]
    /\ gpu = {}
    /\ present_queue = <<>>
    /\ pc = "idle"
    /\ control_flow = "Poll"
    /\ event = "NewEvents"
    /\ calls = <<>>
    /\ armed = [i \in Slots |-> FALSE]
    /\ destroyed = <<>>

\* ------------------------------------------------------- the event loop
\* start_main_loop's closure, called with one event.  RedrawRequested calls
\* draw_frame, which runs up to its first blocking call.
RedrawRequested ==
    /\ pc = "idle"
    /\ event' = "RedrawRequested"
    /\ pc' = "wait"
    /\ calls' = <<>>
    /\ image_index' = NoImage
    /\ UNCHANGED <<mainVars, pickVars, swapVars, present_queue, sub_optimal>>
    /\ UNCHANGED <<validation_layers_enabled, swapchain_images,
                   current_frame, in_flight_fences,
                   image_available_semaphores, render_finished_semaphores,
                   images, gpu, control_flow, armed, destroyed>>

\* A closure that ignores the close request.
CloseRequestedIgnored ==
    /\ pc = "idle"
    /\ event' = "CloseRequested"
    /\ UNCHANGED <<mainVars, pickVars, swapVars, present_queue, sub_optimal>>
    /\ UNCHANGED <<validation_layers_enabled, swapchain_images,
                   current_frame, in_flight_fences,
                   image_available_semaphores, render_finished_semaphores,
                   image_index, images, gpu, pc, control_flow, calls, armed,
                   destroyed>>
CloseRequested ==
    /\ pc = "idle"
    /\ event' = "CloseRequested"
    /\ control_flow' = "Exit"
    /\ UNCHANGED <<mainVars, pickVars, swapVars, present_queue, sub_optimal>>
    /\ UNCHANGED <<validation_layers_enabled, swapchain_images,
                   current_frame, in_flight_fences,
                   image_available_semaphores, render_finished_semaphores,
                   image_index, images, gpu, pc, calls, armed, destroyed>>

\* A closure that draws a frame on every input event as well.
OtherEventDraws ==
    /\ pc = "idle"
    /\ event' \in {"KeyboardInput", "CursorMoved"}
    /\ pc' = "wait"
    /\ calls' = <<>>
    /\ image_index' = NoImage
    /\ UNCHANGED <<mainVars, pickVars, swapVars, present_queue, sub_optimal>>
    /\ UNCHANGED <<validation_layers_enabled, swapchain_images,
                   current_frame, in_flight_fences,
                   image_available_semaphores, render_finished_semaphores,
                   images, gpu, control_flow, armed, destroyed>>
\* Every other event (keyboard, mouse, resize, ...) falls through `_ => ()`.
OtherEvent ==
    /\ pc = "idle"
    /\ event' \in {"KeyboardInput", "CursorMoved"}
    /\ UNCHANGED <<mainVars, pickVars, swapVars, present_queue, sub_optimal>>
    /\ UNCHANGED <<validation_layers_enabled, swapchain_images,
                   current_frame, in_flight_fences,
                   image_available_semaphores, render_finished_semaphores,
                   image_index, images, gpu, pc, control_flow, calls, armed,
                   destroyed>>

\* ------------------------------------------------------------ draw_frame
\* wait_for_fences(&[in_flight_fences[current_frame]], true, u64::MAX)
\* returns once the fence is signaled.
\* Variants of the wait: one that does not block, one that resets the fence
\* as soon as the wait returns.
WaitForFencesNoBlock ==
    /\ pc = "wait"
    /\ calls' = Append(calls, <<"wait_for_fences", current_frame>>)
    /\ pc' = "acquire"
    /\ UNCHANGED <<mainVars, pickVars, swapVars, present_queue, sub_optimal>>
    /\ UNCHANGED <<validation_layers_enabled, swapchain_images,
                   current_frame, in_flight_fences,
                   image_available_semaphores, render_finished_semaphores,
                   image_index, images, gpu, control_flow, event, armed,
                   destroyed>>
WaitForFencesResetEarly ==
    /\ pc = "wait"
    /\ in_flight_fences[current_frame]
    /\ in_flight_fences' = [in_flight_fences EXCEPT ![current_frame] = FALSE]
    /\ calls' = calls \o <<<<"wait_for_fences", current_frame>>,
                            <<"reset_fences", current_frame>>>>
    /\ pc' = "acquire"
    /\ UNCHANGED <<mainVars, pickVars, swapVars, present_queue, sub_optimal>>
    /\ UNCHANGED <<validation_layers_enabled, swapchain_images,
                   current_frame, image_available_semaphores,
                   render_finished_semaphores, image_index, images, gpu,
                   control_flow, event, armed, destroyed>>
WaitForFences ==
    /\ pc = "wait"
    /\ in_flight_fences[current_frame]
    /\ calls' = Append(calls, <<"wait_for_fences", current_frame>>)
    /\ pc' = "acquire"
    /\ UNCHANGED <<mainVars, pickVars, swapVars, present_queue, sub_optimal>>
    /\ UNCHANGED <<validation_layers_enabled, swapchain_images,
                   current_frame, in_flight_fences,
                   image_available_semaphores, render_finished_semaphores,
                   image_index, images, gpu, control_flow, event, armed,
                   destroyed>>

\* An acquire whose suboptimal result is taken for a failure: the tick
\* panics where an optimal result lets it go on.
AcquireNextImageSuboptimalFails ==
    /\ pc = "acquire"
    /\ \E k \in Images :
          /\ images[k] = "free"
          /\ images' = [images EXCEPT ![k] = "acquired"]
          /\ image_index' = k
          /\ gpu' = gpu \cup {Op("acquire", current_frame, k, "queued")}
    /\ \E is_sub_optimal \in BOOLEAN :
          /\ sub_optimal' =
                IF is_sub_optimal THEN {"acquire_next_image"} ELSE {}
          /\ IF is_sub_optimal
             THEN pc' \in {"drop", "aborted"} /\ UNCHANGED calls
             ELSE /\ pc' = "reset"
                  /\ calls' = Append(calls, <<"acquire_next_image",
                                              current_frame>>)
    /\ UNCHANGED <<mainVars, pickVars, swapVars, present_queue>>
    /\ UNCHANGED <<validation_layers_enabled, swapchain_images,
                   current_frame, in_flight_fences,
                   image_available_semaphores, render_finished_semaphores,
                   control_flow, event, armed, destroyed>>
\* acquire_next_image(swapchain, u64::MAX,
\* image_available_semaphores[current_frame], null) returns the index of an
\* image the presentation engine does not hold; the semaphore is signaled
\* later, when the image becomes usable.  Ok carries (image_index,
\* _is_sub_optimal); the flag is bound and never read.
AcquireNextImage ==
    /\ pc = "acquire"
    /\ \E k \in Images :
          /\ images[k] = "free"
          /\ images' = [images EXCEPT ![k] = "acquired"]
          /\ image_index' = k
          /\ gpu' = gpu \cup {Op("acquire", current_frame, k, "queued")}
    /\ \E is_sub_optimal \in BOOLEAN :
          sub_optimal' = IF is_sub_optimal THEN {"acquire_next_image"} ELSE {}
    /\ calls' = Append(calls, <<"acquire_next_image", current_frame>>)
    /\ pc' = "reset"
    /\ UNCHANGED <<mainVars, pickVars, swapVars, present_queue>>
    /\ UNCHANGED <<validation_layers_enabled, swapchain_images,
                   current_frame, in_flight_fences,
                   image_available_semaphores, render_finished_semaphores,
                   control_flow, event, armed, destroyed>>

\* A reset that leaves the fence signaled.
ResetFencesForgotten ==
    /\ pc = "reset"
    /\ calls' = Append(calls, <<"reset_fences", current_frame>>)
    /\ pc' = "submit"
    /\ UNCHANGED <<mainVars, pickVars, swapVars, present_queue, sub_optimal>>
    /\ UNCHANGED <<validation_layers_enabled, swapchain_images,
                   current_frame, in_flight_fences,
                   image_available_semaphores, render_finished_semaphores,
                   image_index, images, gpu, control_flow, event, armed,
                   destroyed>>
\* reset_fences(&wait_fences)
ResetFences ==
    /\ pc = "reset"
    /\ in_flight_fences' = [in_flight_fences EXCEPT ![current_frame] = FALSE]
    /\ calls' = Append(calls, <<"reset_fences", current_frame>>)
    /\ pc' = "submit"
    /\ UNCHANGED <<mainVars, pickVars, swapVars, present_queue, sub_optimal>>
    /\ UNCHANGED <<validation_layers_enabled, swapchain_images,
                   current_frame, image_available_semaphores,
                   render_finished_semaphores, image_index, images, gpu,
                   control_flow, event, armed, destroyed>>

\* A submit that indexes the command buffers by the frame slot.
QueueSubmitBySlot ==
    /\ pc = "submit"
    /\ gpu' = gpu \cup {Op("submit", current_frame, image_index, "queued")}
    /\ armed' = [armed EXCEPT ![current_frame] = TRUE]
    /\ calls' = Append(calls, <<"queue_submit", current_frame,
                                current_frame>>)
    /\ pc' = "present"
    /\ UNCHANGED <<mainVars, pickVars, swapVars, present_queue, sub_optimal>>
    /\ UNCHANGED <<validation_layers_enabled, swapchain_images,
                   current_frame, in_flight_fences,
                   image_available_semaphores, render_finished_semaphores,
                   image_index, images, control_flow, event, destroyed>>

\* queue_submit(graphics_queue, &submit_infos,
\* in_flight_fences[current_frame]): command_buffers[image_index], waiting
\* on image_available_semaphores[current_frame], signaling
\* render_finished_semaphores[current_frame].
QueueSubmit ==
    /\ pc = "submit"
    /\ gpu' = gpu \cup {Op("submit", current_frame, image_index, "queued")}
    /\ armed' = [armed EXCEPT ![current_frame] = TRUE]
    /\ calls' = Append(calls, <<"queue_submit", current_frame, image_index>>)
    /\ pc' = "present"
    /\ UNCHANGED <<mainVars, pickVars, swapVars, present_queue, sub_optimal>>
    /\ UNCHANGED <<validation_layers_enabled, swapchain_images,
                   current_frame, in_flight_fences,
                   image_available_semaphores, render_finished_semaphores,
                   image_index, images, control_flow, event, destroyed>>

\* queue_present(present_queue, &present_info): image_index, waiting on
\* render_finished_semaphores[current_frame].  Ok carries the suboptimal
\* flag, which .expect returns and the statement discards.
QueuePresent ==
    /\ pc = "present"
    /\ present_queue' = Append(present_queue, <<current_frame, image_index>>)
    /\ calls' = Append(calls, <<"queue_present", current_frame, image_index>>)
    /\ \E is_sub_optimal \in BOOLEAN :
          sub_optimal' = IF is_sub_optimal
                         THEN sub_optimal \cup {"queue_present"}
                         ELSE sub_optimal
    /\ pc' = "advance"
    /\ UNCHANGED <<mainVars, pickVars, swapVars>>
    /\ UNCHANGED <<validation_layers_enabled, swapchain_images,
                   current_frame, in_flight_fences,
                   image_available_semaphores, render_finished_semaphores,
                   image_index, images, gpu, control_flow, event, armed,
                   destroyed>>

\* current_frame = (current_frame + 1) % MAX_FRAMES_IN_FLIGHT; draw_frame
\* returns to the event loop.
\* An advance that also rebuilds the swapchain with a single image.
AdvanceRebuildsSwapchain ==
    /\ pc = "advance"
    /\ current_frame' = (current_frame + 1) % MAX_FRAMES_IN_FLIGHT
    /\ swapchain_images' = 1
    /\ calls' = Append(calls, <<"advance", current_frame>>)
    /\ pc' = "idle"
    /\ sub_optimal' = {}
    /\ UNCHANGED <<mainVars, pickVars, swapVars, present_queue>>
    /\ UNCHANGED <<validation_layers_enabled,
                   in_flight_fences, image_available_semaphores,
                   render_finished_semaphores, image_index, images, gpu,
                   control_flow, event, armed, destroyed>>
\* An advance that cycles over the swapchain images.
AdvanceOverImages ==
    /\ pc = "advance"
    /\ current_frame' = (current_frame + 1) % swapchain_images
    /\ calls' = Append(calls, <<"advance", current_frame>>)
    /\ pc' = "idle"
    /\ sub_optimal' = {}
    /\ UNCHANGED <<mainVars, pickVars, swapVars, present_queue>>
    /\ UNCHANGED <<validation_layers_enabled, swapchain_images,
                   in_flight_fences, image_available_semaphores,
                   render_finished_semaphores, image_index, images, gpu,
                   control_flow, event, armed, destroyed>>
\* self.current_frame = (self.current_frame + 1) % MAX_FRAMES_IN_FLIGHT
Advance ==
    /\ pc = "advance"
    /\ current_frame' = (current_frame + 1) % MAX_FRAMES_IN_FLIGHT
    /\ calls' = Append(calls, <<"advance", current_frame>>)
    /\ pc' = "idle"
    /\ sub_optimal' = {}
    /\ UNCHANGED <<mainVars, pickVars, swapVars, present_queue>>
    /\ UNCHANGED <<validation_layers_enabled, swapchain_images,
                   in_flight_fences, image_available_semaphores,
                   render_finished_semaphores, image_index, images, gpu,
                   control_flow, event, armed, destroyed>>

\* Any of the calls returns an error: .expect panics.  The panic either
\* unwinds through the closure, which drops the engine, or aborts the
\* process, depending on the build's panic strategy.
\* An error that is swallowed: the tick is given up and the loop goes on
\* with the next slot.
ApiCallFailsLoopGoesOn ==
    /\ pc \in {"wait", "acquire", "reset", "submit", "present"}
    /\ pc' = "idle"
    /\ current_frame' = (current_frame + 1) % MAX_FRAMES_IN_FLIGHT
    /\ sub_optimal' = {}
    /\ UNCHANGED <<mainVars, pickVars, swapVars, present_queue>>
    /\ UNCHANGED <<validation_layers_enabled, swapchain_images,
                   in_flight_fences, image_available_semaphores,
                   render_finished_semaphores, image_index, images, gpu,
                   control_flow, event, calls, armed, destroyed>>
ApiCallFails ==
    /\ pc \in {"wait", "acquire", "reset", "submit", "present"}
    /\ pc' \in {"drop", "aborted"}
    /\ sub_optimal' = {}
    /\ UNCHANGED <<mainVars, pickVars, swapVars, present_queue>>
    /\ UNCHANGED <<validation_layers_enabled, swapchain_images,
                   current_frame, in_flight_fences,
                   image_available_semaphores, render_finished_semaphores,
                   image_index, images, gpu, control_flow, event, calls,
                   armed, destroyed>>

\* ------------------------------------- the GPU and the presentation engine
\* The process runs: it has neither aborted nor finished its teardown.
Running == pc \notin {"aborted", "dropped"}
SwapchainAlive == <<"swapchain", 0>> \notin Range(destroyed)

\* The acquired image becomes usable: the semaphore handed to
\* acquire_next_image is signaled.
ImageBecomesAvailable ==
    /\ Running
    /\ SwapchainAlive
    /\ \E op \in gpu :
          /\ op.kind = "acquire"
          /\ image_available_semaphores' =
                [image_available_semaphores EXCEPT ![op.slot] = TRUE]
          /\ gpu' = gpu \ {op}
    /\ UNCHANGED <<mainVars, pickVars, swapVars, present_queue, sub_optimal>>
    /\ UNCHANGED <<validation_layers_enabled, swapchain_images,
                   current_frame, in_flight_fences,
                   render_finished_semaphores, image_index, images, pc,
                   control_flow, event, calls, armed, destroyed>>

\* A submission passes its wait on the image-available semaphore at
\* COLOR_ATTACHMENT_OUTPUT (wait_semaphores, wait_stages): the wait
\* unsignals the semaphore.
BeginColorOutput ==
    /\ Running
    /\ \E op \in gpu :
          /\ op.kind = "submit"
          /\ op.stage = "queued"
          /\ image_available_semaphores[op.slot]
          /\ image_available_semaphores' =
                [image_available_semaphores EXCEPT ![op.slot] = FALSE]
          /\ gpu' = (gpu \ {op}) \cup {[op EXCEPT !.stage = "executing"]}
    /\ UNCHANGED <<mainVars, pickVars, swapVars, present_queue, sub_optimal>>
    /\ UNCHANGED <<validation_layers_enabled, swapchain_images,
                   current_frame, in_flight_fences,
                   render_finished_semaphores, image_index, images, pc,
                   control_flow, event, calls, armed, destroyed>>

\* A submission finishes executing: it signals its render-finished
\* semaphore (signal_semaphores) and the fence given to queue_submit.
FinishExecution ==
    /\ Running
    /\ \E op \in gpu :
          /\ op.kind = "submit"
          /\ op.stage = "executing"
          /\ render_finished_semaphores' =
                [render_finished_semaphores EXCEPT ![op.slot] = TRUE]
          /\ in_flight_fences' = [in_flight_fences EXCEPT ![op.slot] = TRUE]
          /\ gpu' = gpu \ {op}
    /\ UNCHANGED <<mainVars, pickVars, swapVars, present_queue, sub_optimal>>
    /\ UNCHANGED <<validation_layers_enabled, swapchain_images,
                   current_frame, image_available_semaphores, image_index,
                   images, pc, control_flow, event, calls, armed, destroyed>>

\* A present that does not wait on the render-finished semaphore.
PresentImageNoWait ==
    /\ Running
    /\ present_queue # <<>>
    /\ LET slot == Head(present_queue)[1]
           image == Head(present_queue)[2]
       IN  /\ render_finished_semaphores' =
                 [render_finished_semaphores EXCEPT ![slot] = FALSE]
           /\ images' = [images EXCEPT ![image] = "presented"]
    /\ present_queue' = Tail(present_queue)
    /\ UNCHANGED <<mainVars, pickVars, swapVars, sub_optimal>>
    /\ UNCHANGED <<validation_layers_enabled, swapchain_images,
                   current_frame, in_flight_fences,
                   image_available_semaphores, image_index, gpu, pc,
                   control_flow, event, calls, armed, destroyed>>
\* The oldest present request (requests on one queue are performed in the
\* order they were made) passes its wait on the render-finished semaphore
\* (present_info.p_wait_semaphores) and hands the image to the presentation
\* engine.
PresentImage ==
    /\ Running
    /\ present_queue # <<>>
    /\ LET slot == Head(present_queue)[1]
           image == Head(present_queue)[2]
       IN  /\ render_finished_semaphores[slot]
           /\ render_finished_semaphores' =
                 [render_finished_semaphores EXCEPT ![slot] = FALSE]
           /\ images' = [images EXCEPT ![image] = "presented"]
    /\ present_queue' = Tail(present_queue)
    /\ UNCHANGED <<mainVars, pickVars, swapVars, sub_optimal>>
    /\ UNCHANGED <<validation_layers_enabled, swapchain_images,
                   current_frame, in_flight_fences,
                   image_available_semaphores, image_index, gpu, pc,
                   control_flow, event, calls, armed, destroyed>>

\* The presentation engine is done with a presented image; acquire may
\* return it again.
ReleaseImage ==
    /\ Running
    /\ SwapchainAlive
    /\ \E k \in Images :
          /\ images[k] = "presented"
          /\ images' = [images EXCEPT ![k] = "free"]
    /\ UNCHANGED <<mainVars, pickVars, swapVars, present_queue, sub_optimal>>
    /\ UNCHANGED <<validation_layers_enabled, swapchain_images,
                   current_frame, in_flight_fences,
                   image_available_semaphores, render_finished_semaphores,
                   image_index, gpu, pc, control_flow, event, calls, armed,
                   destroyed>>

\* ------------------------------------------------------------- teardown
\* ControlFlow::Exit ends event_loop.run: the closure is called a last time
\* with LoopDestroyed, which falls through `_ => ()`, and is dropped with
\* the engine it owns.
LoopExit ==
    /\ pc = "idle"
    /\ control_flow = "Exit"
    /\ event' = "LoopDestroyed"
    /\ pc' = "drop"
    /\ UNCHANGED <<mainVars, pickVars, swapVars, present_queue, sub_optimal>>
    /\ UNCHANGED <<validation_layers_enabled, swapchain_images,
                   current_frame, in_flight_fences,
                   image_available_semaphores, render_finished_semaphores,
                   image_index, images, gpu, control_flow, calls,
                   armed, destroyed>>

\* device_wait_idle() returns at once, whatever is still on the queues.
DeviceWaitIdleNoWait ==
    /\ pc = "drop"
    /\ pc' = "destroy"
    /\ UNCHANGED <<mainVars, pickVars, swapVars, present_queue, sub_optimal>>
    /\ UNCHANGED <<validation_layers_enabled, swapchain_images,
                   current_frame, in_flight_fences,
                   image_available_semaphores, render_finished_semaphores,
                   image_index, images, gpu, control_flow, event, calls,
                   armed, destroyed>>
\* self.device.device_wait_idle().unwrap() returns once no work is left on
\* the device's queues.
DeviceWaitIdle ==
    /\ pc = "drop"
    /\ QueueWork = {}
    /\ pc' = "destroy"
    /\ UNCHANGED <<mainVars, pickVars, swapVars, present_queue, sub_optimal>>
    /\ UNCHANGED <<validation_layers_enabled, swapchain_images,
                   current_frame, in_flight_fences,
                   image_available_semaphores, render_finished_semaphores,
                   image_index, images, gpu, control_flow, event, calls,
                   armed, destroyed>>

\* device_wait_idle() returns an error: unwrap panics inside drop and
\* nothing is destroyed.
DeviceWaitIdleFails ==
    /\ pc = "drop"
    /\ pc' = "aborted"
    /\ UNCHANGED <<mainVars, pickVars, swapVars, present_queue, sub_optimal>>
    /\ UNCHANGED <<validation_layers_enabled, swapchain_images,
                   current_frame, in_flight_fences,
                   image_available_semaphores, render_finished_semaphores,
                   image_index, images, gpu, control_flow, event, calls,
                   armed, destroyed>>

\* The next destroy call of Drop.
Destroy ==
    /\ pc = "destroy"
    /\ LET order == DropOrder(validation_layers_enabled, swapchain_images)
           next == Len(destroyed) + 1
       IN  /\ next <= Len(order)
           /\ destroyed' = Append(destroyed, order[next])
           /\ pc' = IF next = Len(order) THEN "dropped" ELSE "destroy"
    /\ UNCHANGED <<mainVars, pickVars, swapVars, present_queue, sub_optimal>>
    /\ UNCHANGED <<validation_layers_enabled, swapchain_images,
                   current_frame, in_flight_fences,
                   image_available_semaphores, render_finished_semaphores,
                   image_index, images, gpu, control_flow, event, calls,
                   armed>>

\* ------------------------------------------------- pick_physical_device
DeviceTypes == {"DISCRETE_GPU", "INTEGRATED_GPU", "VIRTUAL_GPU"}

\* What the selection reads of a queue family: the GRAPHICS flag and, only
\* when that flag is set (&& short-circuits), the answer of
\* get_physical_device_surface_support.
QueueFamilies ==
    {[graphics |-> FALSE, surface_support |-> FALSE],
     [graphics |-> TRUE, surface_support |-> FALSE],
     [graphics |-> TRUE, surface_support |-> TRUE]}

SeqsUpTo(S, n) == UNION {[1 .. m -> S] : m \in 0 .. n}

PhysicalDevices ==
    [device_type : DeviceTypes,
     queue_families : SeqsUpTo(QueueFamilies, MaxFamilies)]

None == <<>>
\* A pair whose device is not the one the family index was found on.
SomeOfFirstDevice(index, device) == <<index, 0>>
Some(index, device) == <<index, device>>
Panic == <<"panic">>

supports_graphic_and_surface(info) == info.graphics /\ info.surface_support

\* The inner filter_map(...).nth(0) over the queue families of device d
\* (a position in devs), from family position k on, with integrated_device
\* as left by the closure calls so far.  Family indices count from 0.
\* A selection that lets an integrated GPU win like a discrete one.
RECURSIVE ScanFamiliesIntegratedWins(_, _, _, _)
ScanFamiliesIntegratedWins(devs, d, k, integrated_device) ==
    LET families == devs[d].queue_families
        ty == devs[d].device_type
    IN  IF k > Len(families)
        THEN [found |-> None, integrated_device |-> integrated_device]
        ELSE IF supports_graphic_and_surface(families[k])
             THEN CASE ty \in {"DISCRETE_GPU", "INTEGRATED_GPU"} ->
                          [found |-> Some(k - 1, d - 1),
                           integrated_device |-> integrated_device]
                    [] OTHER ->
                          ScanFamiliesIntegratedWins(devs, d, k + 1,
                              integrated_device)
             ELSE ScanFamiliesIntegratedWins(devs, d, k + 1,
                      integrated_device)

RECURSIVE ScanFamilies(_, _, _, _)
ScanFamilies(devs, d, k, integrated_device) ==
    LET families == devs[d].queue_families
        ty == devs[d].device_type
    IN  IF k > Len(families)
        THEN [found |-> None, integrated_device |-> integrated_device]
        ELSE IF supports_graphic_and_surface(families[k])
             THEN CASE ty = "DISCRETE_GPU" ->
                          [found |-> Some(k - 1, d - 1),
                           integrated_device |-> integrated_device]
                    [] ty = "INTEGRATED_GPU" ->
                          ScanFamilies(devs, d, k + 1, Some(k - 1, d - 1))
                    [] OTHER ->
                          ScanFamilies(devs, d, k + 1, integrated_device)
             ELSE ScanFamilies(devs, d, k + 1, integrated_device)

\* The outer map(...).filter_map(|v| v).nth(0) over the devices from
\* position d on: devices are visited lazily, up to the first one whose
\* inner scan yields Some.
RECURSIVE ScanDevices(_, _, _)
ScanDevices(devs, d, integrated_device) ==
    IF d > Len(devs)
    THEN [found |-> None, integrated_device |-> integrated_device]
    ELSE LET r == ScanFamilies(devs, d, 1, integrated_device)
         IN  IF r.found # None
             THEN r
             ELSE ScanDevices(devs, d + 1, r.integrated_device)

\* pick_physical_device: (queue family index, device), the device named by
\* its position in the enumeration, or Panic.
pick_physical_device(devs) ==
    IF Len(devs) <= 0
    THEN Panic
    ELSE LET r == ScanDevices(devs, 1, None)
         IN  IF r.found # None
             THEN r.found
             ELSE IF r.integrated_device # None
                  THEN r.integrated_device
                  ELSE Panic

\* The engine's fields while VulkanEngine::new is still selecting a
\* device: nothing is created, submitted or destroyed yet.
EngineNotBuilt ==
    /\ validation_layers_enabled = FALSE
    /\ swapchain_images = 0
    /\ current_frame = 1
    /\ in_flight_fences = [i \in Slots |-> FenceCreateSignaled]
    /\ image_available_semaphores = [i \in Slots |-> FALSE]
    /\ render_finished_semaphores = [i \in Slots |-> FALSE]
    /\ image_index = NoImage
    /\ sub_optimal = {}
    /\ images = [k \in Images |-> "free"]
    /\ gpu = {}
    /\ present_queue = <<>>
    /\ pc = "new"
    /\ control_flow = "Poll"
    /\ event = "NewEvents"
    /\ calls = <<>>
    /\ armed = [i \in Slots |-> FALSE]
    /\ destroyed = <<>>

NotPicked == <<"not picked">>

\* create_device calls pick_physical_device on the enumerated devices.
PickPhysicalDevice ==
    /\ pc = "new"
    /\ picked = NotPicked
    /\ picked' = pick_physical_device(devices)
    /\ UNCHANGED <<devices, engineVars, swapVars, mainVars>>

\* The running engine was built on a machine with one discrete GPU whose
\* family 0 supports graphics and presentation.
OneDiscreteGpu ==
    <<[device_type |-> "DISCRETE_GPU",
       queue_families |-> <<[graphics |-> TRUE, surface_support |-> TRUE]>>]>>

\* ------------------------------------------------------ create_swapchain
\* A u32 is kept at its width as two 16-bit limbs <<high, low>>.
Limb == 2 ^ 16
U32(n) == <<n \div Limb, n % Limb>>
U32_MAX == <<Limb - 1, Limb - 1>>
Gt(a, b) == a[1] > b[1] \/ (a[1] = b[1] /\ a[2] > b[2])
Le(a, b) == ~Gt(a, b)

\* a + 1 on u32: the sum modulo 2^32 and whether the addition overflowed.
AddOne(a) ==
    IF a[2] < Limb - 1
    THEN [value |-> <<a[1], a[2] + 1>>, overflow |-> FALSE]
    ELSE IF a[1] < Limb - 1
         THEN [value |-> <<a[1] + 1, 0>>, overflow |-> FALSE]
         ELSE [value |-> <<0, 0>>, overflow |-> TRUE]

PresentModes == {"IMMEDIATE", "MAILBOX", "FIFO"}
SurfaceFormats ==
    {[format |-> "B8G8R8A8_SRGB", color_space |-> "SRGB_NONLINEAR"],
     [format |-> "R8G8B8A8_SRGB", color_space |-> "SRGB_NONLINEAR"],
     [format |-> "B8G8R8A8_SRGB", color_space |-> "EXTENDED_SRGB_LINEAR_EXT"]}
ImageCounts == {U32(n) : n \in 0 .. MaxCount} \cup {U32_MAX}
Extents == [width : {U32(640), U32_MAX}, height : {U32(480), U32_MAX}]
WindowWidths == {U32(800), U32(1024)}
WindowHeights == {U32(600)}

\* What create_swapchain reads: the answers of the three surface queries
\* and the window size kept in the surface bundle.
Surfaces ==
    [present_modes : SeqsUpTo(PresentModes, MaxModes),
     surface_formats : SeqsUpTo(SurfaceFormats, MaxFormats),
     min_image_count : ImageCounts,
     max_image_count : ImageCounts,
     current_extent : Extents,
     width : WindowWidths,
     height : WindowHeights]

\* A panic where the value would have been a record.
Panicked == [panic |-> TRUE]

\* A selection that keeps the first reported format.
surface_format_first(surface_formats) ==
    IF surface_formats = <<>> THEN Panicked ELSE surface_formats[1]
\* first().unwrap(), then the loop over all formats: every match assigns.
RECURSIVE surface_format_loop(_, _, _)
surface_format_loop(surface_formats, j, surface_format) ==
    IF j > Len(surface_formats)
    THEN surface_format
    ELSE surface_format_loop(surface_formats, j + 1,
             IF /\ surface_formats[j].format = "B8G8R8A8_SRGB"
                /\ surface_formats[j].color_space = "SRGB_NONLINEAR"
             THEN surface_formats[j]
             ELSE surface_format)
surface_format(surface_formats) ==
    IF surface_formats = <<>>
    THEN Panicked
    ELSE surface_format_loop(surface_formats, 1, surface_formats[1])

\* min_image_count + 1 in u32 (a panic with overflow checks, the wrapped
\* sum without), then the clamp.
desired_image_count(min_image_count, max_image_count, overflow_checks) ==
    LET sum == AddOne(min_image_count)
    IN  IF sum.overflow /\ overflow_checks
        THEN Panic
        ELSE IF /\ Gt(max_image_count, U32(0))
                /\ Gt(sum.value, max_image_count)
             THEN max_image_count
             ELSE sum.value

\* A choice that takes the first supported mode.
present_mode_first(present_modes) ==
    IF present_modes = <<>> THEN "FIFO" ELSE present_modes[1]
\* iter().cloned().find(MAILBOX).unwrap_or(FIFO)
present_mode(present_modes) ==
    IF \E j \in 1 .. Len(present_modes) : present_modes[j] = "MAILBOX"
    THEN "MAILBOX"
    ELSE "FIFO"

\* An extent that is always taken from the surface.
extent_verbatim(s) == s.current_extent
\* match current_extent.width { u32::MAX => window size, _ => current_extent }
extent(s) ==
    IF s.current_extent.width = U32_MAX
    THEN [width |-> s.width, height |-> s.height]
    ELSE s.current_extent

\* vk::Extent2D::default(), the image_extent of a create info whose builder
\* was never given one.
DefaultExtent2D == [width |-> U32(0), height |-> U32(0)]

\* create_swapchain: the create info handed to the driver and the fields
\* of the returned bundle computed here, or Panicked.
create_swapchain(s, overflow_checks) ==
    LET sf == surface_format(s.surface_formats)
        desired == desired_image_count(s.min_image_count,
                       s.max_image_count, overflow_checks)
    IN  IF sf = Panicked \/ desired = Panic
        THEN Panicked
        ELSE [swapchain_create_info |->
                  [min_image_count |-> desired,
                   image_color_space |-> sf.color_space,
                   image_format |-> sf.format,
                   present_mode |-> present_mode(s.present_modes),
                   image_extent |-> DefaultExtent2D],
              swapchain_format |-> sf.format,
              swapchain_extent |-> extent(s)]

NotCreated == [created |-> FALSE]

\* VulkanEngine::new calls create_swapchain once the device is chosen; the
\* build may or may not check arithmetic overflow.
CreateSwapchain ==
    /\ pc = "new"
    /\ picked \notin {NotPicked, Panic}
    /\ swapchain = NotCreated
    /\ \E overflow_checks \in BOOLEAN :
           swapchain' = create_swapchain(surface, overflow_checks)
    /\ UNCHANGED <<surface, engineVars, pickVars, mainVars>>

\* The surface of the running engine: an 800 x 600 window whose surface
\* reports its extent, two to three images, FIFO and the preferred format.
TypicalSurface ==
    [present_modes |-> <<"FIFO">>,
     surface_formats |->
         <<[format |-> "B8G8R8A8_SRGB", color_space |-> "SRGB_NONLINEAR"]>>,
     min_image_count |-> U32(2), max_image_count |-> U32(3),
     current_extent |-> [width |-> U32(800), height |-> U32(600)],
     width |-> U32(800), height |-> U32(600)]

\* ------------------------------------------------------- specifications
Init ==
    /\ EngineInit
    /\ devices = OneDiscreteGpu
    /\ picked = pick_physical_device(OneDiscreteGpu)
    /\ surface = TypicalSurface
    /\ swapchain = create_swapchain(TypicalSurface, FALSE)
    /\ env = IF validation_layers_enabled THEN Var("1") ELSE Unset

Next ==
    \/ RedrawRequested
    \/ CloseRequested
    \/ OtherEvent
    \/ WaitForFences
    \/ AcquireNextImage
    \/ ResetFences
    \/ QueueSubmit
    \/ QueuePresent
    \/ Advance
    \/ ApiCallFails
    \/ ImageBecomesAvailable
    \/ BeginColorOutput
    \/ FinishExecution
    \/ PresentImage
    \/ ReleaseImage
    \/ LoopExit
    \/ DeviceWaitIdle
    \/ DeviceWaitIdleFails
    \/ Destroy

Spec == Init /\ [][Next]_vars

\* The same engine under the scheduling the platform provides: the thread
\* inside draw_frame takes its next step whenever that step can be taken,
\* the GPU and the presentation engine eventually perform every operation
\* that is ready, and the event loop, once control_flow is Exit, ends after
\* the finitely many events left in its current iteration.
DrawFrameStep ==
    \/ WaitForFences
    \/ AcquireNextImage
    \/ ResetFences
    \/ QueueSubmit
    \/ QueuePresent
    \/ Advance
Fairness ==
    /\ WF_vars(DrawFrameStep)
    /\ WF_vars(ImageBecomesAvailable)
    /\ WF_vars(BeginColorOutput)
    /\ WF_vars(FinishExecution)
    /\ WF_vars(PresentImage)
    /\ WF_vars(ReleaseImage)
    /\ SF_vars(LoopExit)
\* The validation toggle plays no part in a tick or in the event loop: the
\* fair runs start with it off.
FairInit == Init /\ ~validation_layers_enabled
FairSpec == FairInit /\ [][Next]_vars /\ Fairness

\* Device selection on every list of up to MaxDevices devices.
PickInit ==
    /\ EngineNotBuilt
    /\ \E m \in 0 .. MaxDevices : devices \in [1 .. m -> PhysicalDevices]
    /\ picked = NotPicked
    /\ surface = TypicalSurface
    /\ swapchain = NotCreated
    /\ env = Unset

PickNext == PickPhysicalDevice

SpecPick == PickInit /\ [][PickNext]_vars

\* create_swapchain on every surface of Surfaces.
SwapchainInit ==
    /\ EngineNotBuilt
    /\ devices = OneDiscreteGpu
    /\ picked = pick_physical_device(OneDiscreteGpu)
    /\ surface \in Surfaces
    /\ swapchain = NotCreated
    /\ env = Unset

SwapchainNext == CreateSwapchain

SpecSwapchain == SwapchainInit /\ [][SwapchainNext]_vars

\* ------------------------------------------------------------------ main
\* main before the window exists: nothing of the engine is built.
MainInit ==
    /\ validation_layers_enabled = FALSE
    /\ swapchain_images = 0
    /\ current_frame = 1
    /\ in_flight_fences = [i \in Slots |-> FenceCreateSignaled]
    /\ image_available_semaphores = [i \in Slots |-> FALSE]
    /\ render_finished_semaphores = [i \in Slots |-> FALSE]
    /\ image_index = NoImage
    /\ sub_optimal = {}
    /\ images = [k \in Images |-> "free"]
    /\ gpu = {}
    /\ present_queue = <<>>
    /\ pc = "main"
    /\ control_flow = "Poll"
    /\ event = "NewEvents"
    /\ calls = <<>>
    /\ armed = [i \in Slots |-> FALSE]
    /\ destroyed = <<>>
    /\ \E m \in 0 .. 1 : devices \in [1 .. m -> PhysicalDevices]
    /\ picked = NotPicked
    /\ surface = TypicalSurface
    /\ swapchain = NotCreated
    /\ env \in EnvValues

\* main reads the toggle: "1" is true, "0" is false, anything else panics.
ReadValidationLayers ==
    /\ pc = "main"
    /\ LET text == validation_layers_env_var(env)
       IN  IF text = "1"
           THEN validation_layers_enabled' = TRUE /\ pc' = "window"
           ELSE IF text = "0"
                THEN validation_layers_enabled' = FALSE /\ pc' = "window"
                ELSE UNCHANGED validation_layers_enabled /\ pc' = "aborted"
    /\ UNCHANGED <<mainVars, pickVars, swapVars, sub_optimal>>
    /\ UNCHANGED <<swapchain_images, current_frame, in_flight_fences,
                   image_available_semaphores, render_finished_semaphores,
                   image_index, images, gpu, present_queue, control_flow,
                   event, calls, armed, destroyed>>

\* gui::MainWindow::new(APP_NAME, 800, 600), then VulkanEngine::new begins.
CreateMainWindow ==
    /\ pc = "window"
    /\ pc' = "new"
    /\ UNCHANGED <<mainVars, pickVars, swapVars, sub_optimal>>
    /\ UNCHANGED <<validation_layers_enabled, swapchain_images,
                   current_frame, in_flight_fences,
                   image_available_semaphores, render_finished_semaphores,
                   image_index, images, gpu, present_queue, control_flow,
                   event, calls, armed, destroyed>>

MainNext ==
    \/ ReadValidationLayers
    \/ CreateMainWindow
    \/ PickPhysicalDevice

SpecMain == MainInit /\ [][MainNext]_vars

\* ------------------------------------------------------ command buffers
\* The states the graphics pipeline declares dynamic.
dynamic_state == {"VIEWPORT", "SCISSOR"}

\* The commands create_command_buffers records into command buffer i,
\* between begin_command_buffer and end_command_buffer.
RecordedCommands(i) ==
    <<[cmd |-> "begin_render_pass",
       render_pass |-> <<"render_pass", 0>>,
       framebuffer |-> <<"framebuffer", i>>,
       clear_values |-> <<<<0, 0, 0, 1>>>>],
      [cmd |-> "bind_pipeline", pipeline |-> <<"pipeline", 0>>],
      [cmd |-> "draw", vertex_count |-> 4, instance_count |-> 1,
       first_vertex |-> 0, first_instance |-> 0],
      [cmd |-> "end_render_pass"]>>

\* One command buffer per framebuffer, indexed as the framebuffers are.
create_command_buffers(n) == [k \in 0 .. (n - 1) |-> RecordedCommands(k)]
command_buffers == create_command_buffers(swapchain_images)

\* create_image_views pushes one view per swapchain image, in image order,
\* and create_framebuffers one framebuffer per view, in view order.
create_image_views(n) == [k \in 0 .. (n - 1) |-> [image |-> k]]
create_framebuffers(n) ==
    [k \in 0 .. (n - 1) |-> [attachments |-> <<<<"image_view", k>>>>]]

\* The create and destroy calls of create_graphics_pipeline, in order: the
\* two shader modules live only inside it.
create_graphics_pipeline ==
    <<<<"create", <<"shader_module", 0>>>>,
      <<"create", <<"shader_module", 1>>>>,
      <<"create", <<"pipeline_layout", 0>>>>,
      <<"create", <<"pipeline", 0>>>>,
      <<"destroy", <<"shader_module", 0>>>>,
      <<"destroy", <<"shader_module", 1>>>>>>

\* ================================================================ claims
IsPrefix(s, t) ==
    /\ Len(s) <= Len(t)
    /\ \A j \in 1 .. Len(s) : s[j] = t[j]

\* The calls of one complete tick on slot i with acquired image k.
TickCalls(i, k) ==
    <<<<"wait_for_fences", i>>, <<"acquire_next_image", i>>,
      <<"reset_fences", i>>, <<"queue_submit", i, k>>,
      <<"queue_present", i, k>>, <<"advance", i>>>>

\* C1: the calls a tick has made so far are an initial part of wait on
\* fence[i], acquire signalling image_available[i], reset of fence[i],
\* submit of the acquired image's command buffer with fence[i], present of
\* the acquired image, advance; i is current_frame throughout the tick and
\* current_frame has moved on by one once the tick is complete.
C1_TickOrder ==
    \E i \in Slots : \E k \in Images \cup {NoImage} :
        /\ IsPrefix(calls, TickCalls(i, k))
        /\ InTick => i = current_frame
        /\ Len(calls) >= 4 => k = image_index
        /\ Len(calls) = 6 => current_frame = (i + 1) % MAX_FRAMES_IN_FLIGHT
        /\ pc = "wait" => Len(calls) = 0
        /\ pc = "acquire" => Len(calls) = 1
        /\ pc = "reset" => Len(calls) = 2
        /\ pc = "submit" => Len(calls) = 3
        /\ pc = "present" => Len(calls) = 4
        /\ pc = "advance" => Len(calls) = 5
C1_Witness == pc = "idle" /\ Len(calls) = 6 /\ armed[0] /\ armed[1]

\* C2: at most MAX_FRAMES_IN_FLIGHT submissions are unfinished, at most one
\* of them per slot.
C2_InFlightBound ==
    /\ Cardinality(Submissions) <= MAX_FRAMES_IN_FLIGHT
    /\ \A i \in Slots : Cardinality({op \in Submissions : op.slot = i}) <= 1
C2_Witness ==
    /\ Cardinality(Submissions) = MAX_FRAMES_IN_FLIGHT
    /\ pc = "wait"

\* C3: from the return of the wait up to the submit, that is whenever slot
\* i's semaphores are handed to acquire or to submit, no submission made
\* with slot i is unfinished, and the fence is seen signaled until reset.
C3_SlotReuse ==
    pc \in {"acquire", "reset", "submit"} =>
        /\ \A op \in Submissions : op.slot # current_frame
        /\ pc \in {"acquire", "reset"} => in_flight_fences[current_frame]
C3_Witness ==
    /\ pc = "submit"
    /\ armed[current_frame]
    /\ Submissions # {}

\* C4 as claimed: whenever the CPU waits on a slot's fence, a submission
\* targeting that slot has armed the fence before.
C4_ArmedBeforeEveryWait ==
    pc \in {"wait", "acquire"} => armed[current_frame]
\* C4 amended: whenever the CPU waits on a slot's fence, the fence is
\* signaled or a submission armed with it is pending; a fence no submission
\* has armed yet is still signaled from its creation.
C4_NoWaitOnDeadFence ==
    pc = "wait" =>
        IF armed[current_frame]
        THEN \/ in_flight_fences[current_frame]
             \/ \E op \in Submissions : op.slot = current_frame
        ELSE in_flight_fences[current_frame]
C4_Witness ==
    /\ pc = "wait"
    /\ armed[current_frame]
    /\ ~in_flight_fences[current_frame]

\* The groups of the teardown sequence, in the claimed order.
TeardownGroups ==
    <<"sync", "command_pool", "framebuffer", "pipeline", "pipeline_layout",
      "render_pass", "image_view", "swapchain", "device", "surface",
      "debug_messenger", "instance">>
Group(h) ==
    IF h[1] \in {"image_available_semaphore", "render_finished_semaphore",
                 "in_flight_fence"}
    THEN "sync" ELSE h[1]
Rank(g) == CHOOSE j \in 1 .. Len(TeardownGroups) : TeardownGroups[j] = g
\* What Drop has to destroy: everything created but the command buffers,
\* which go with their pool.
ToDestroy == {h \in Created : h[1] # "command_buffer"}

\* C5: Drop destroys group after group in the order sync objects, command
\* pool, framebuffers, pipeline, pipeline layout, render pass, image views,
\* swapchain, device, surface, debug messenger, instance; a group is begun
\* only when every object of the groups before it is destroyed; the
\* messenger is destroyed only when validation is enabled; when Drop
\* returns everything is destroyed.
C5_TeardownSequence ==
    LET todo == ToDestroy
        n == Len(destroyed)
        rank == [j \in 1 .. n |-> Rank(Group(destroyed[j]))]
    IN  /\ \A k \in 1 .. n :
              /\ destroyed[k] \in todo
              /\ k > 1 => rank[k - 1] <= rank[k]
        /\ n > 0 => \A h \in todo \ Range(destroyed) :
                        Rank(Group(h)) >= rank[n]
        /\ <<"debug_messenger", 0>> \in Range(destroyed)
              => validation_layers_enabled
        /\ pc = "dropped" => Range(destroyed) = todo
C5_Witness ==
    /\ pc = "dropped"
    /\ validation_layers_enabled
    /\ swapchain_images = 2

\* C6: no object that a live object was created from, or refers to, is
\* destroyed.
C6_NoDanglingDependents ==
    LET gone == Gone
        live == Created \ gone
    IN  \A x \in gone : \A y \in live : x \notin Uses(y)
C6_Witness ==
    /\ pc = "destroy"
    /\ <<"render_pass", 0>> \in Range(destroyed)
    /\ <<"swapchain", 0>> \in Live

CreatedAt(h) ==
    LET order == new(validation_layers_enabled, swapchain_images)
    IN  CHOOSE j \in 1 .. Len(order) : order[j] = h
\* C7 as claimed: of any two objects Drop has destroyed, the one destroyed
\* first was created last.
C7_ExactReverseOfCreation ==
    \A j, k \in 1 .. Len(destroyed) :
        j < k => CreatedAt(destroyed[j]) > CreatedAt(destroyed[k])

\* C8: a destroy call is issued only after device_wait_idle has returned,
\* and from then on no submission and no present request is outstanding.
C8_IdleBeforeDestroy ==
    /\ destroyed # <<>> => pc \in {"destroy", "dropped"}
    /\ pc \in {"destroy", "dropped"} => QueueWork = {}
C8_Witness ==
    /\ pc = "destroy"
    /\ destroyed # <<>>
    /\ armed[0] /\ armed[1]
    /\ event = "LoopDestroyed"

\* ---- device selection
Qualifies(dev) ==
    \E k \in 1 .. Len(dev.queue_families) :
        /\ dev.queue_families[k].graphics
        /\ dev.queue_families[k].surface_support
QualifyingOfType(t) ==
    {d \in 1 .. Len(devices) :
        devices[d].device_type = t /\ Qualifies(devices[d])}
Returned == picked # NotPicked /\ picked # Panic
PickedType == devices[picked[2] + 1].device_type
Min(S) == CHOOSE x \in S : \A y \in S : x <= y

\* C9 as claimed: when some device has a family supporting graphics and
\* presentation, a discrete GPU is returned if a discrete one qualifies and
\* an integrated one otherwise; when no device has such a family the
\* selection panics.
C9_DiscreteElseIntegrated ==
    picked # NotPicked =>
        IF \E d \in 1 .. Len(devices) : Qualifies(devices[d])
        THEN /\ picked # Panic
             /\ PickedType = IF QualifyingOfType("DISCRETE_GPU") # {}
                             THEN "DISCRETE_GPU" ELSE "INTEGRATED_GPU"
        ELSE picked = Panic
\* C9 amended: a discrete GPU is returned if a discrete one qualifies,
\* otherwise an integrated one if an integrated one qualifies; when no
\* discrete and no integrated device qualifies the selection panics.
C9_DiscreteElseIntegratedElsePanic ==
    picked # NotPicked =>
        IF QualifyingOfType("DISCRETE_GPU") # {}
        THEN picked # Panic /\ PickedType = "DISCRETE_GPU"
        ELSE IF QualifyingOfType("INTEGRATED_GPU") # {}
             THEN picked # Panic /\ PickedType = "INTEGRATED_GPU"
             ELSE picked = Panic
C9_Witness ==
    /\ Returned
    /\ PickedType = "INTEGRATED_GPU"
    /\ picked[2] > 0
    /\ devices[1].device_type = "DISCRETE_GPU"

\* C10 as claimed: the returned device is the first qualifying device of
\* the winning type in enumeration order and the returned index is its
\* lowest qualifying family index.
C10_FirstInEnumerationOrder ==
    Returned =>
        LET t == IF QualifyingOfType("DISCRETE_GPU") # {}
                 THEN "DISCRETE_GPU" ELSE "INTEGRATED_GPU"
            d == Min(QualifyingOfType(t))
            k == Min({f \in 1 .. Len(devices[d].queue_families) :
                        /\ devices[d].queue_families[f].graphics
                        /\ devices[d].queue_families[f].surface_support})
        IN  picked = <<k - 1, d - 1>>

\* C11: whenever a pair is returned, its device is one of the enumerated
\* devices, its index is one of that device's queue families, and that
\* family of that device supports graphics and presentation to the surface.
C11_FamilyOfReturnedDevice ==
    Returned =>
        LET d == picked[2] + 1
            k == picked[1] + 1
        IN  /\ d \in 1 .. Len(devices)
            /\ k \in 1 .. Len(devices[d].queue_families)
            /\ supports_graphic_and_surface(devices[d].queue_families[k])
C11_Witness ==
    /\ Returned
    /\ picked = <<1, 1>>
    /\ Len(devices[1].queue_families) = 2
    /\ ~supports_graphic_and_surface(devices[1].queue_families[2])
    /\ devices[1].device_type = "INTEGRATED_GPU"
    /\ supports_graphic_and_surface(devices[1].queue_families[1])

\* ---- swapchain configuration
Attempted == swapchain # NotCreated
Configured == swapchain \notin {NotCreated, Panicked}
RequestedCount == swapchain.swapchain_create_info.min_image_count

\* C12 as claimed: for capabilities with min_image_count <= max_image_count
\* or max_image_count = 0 (and a surface reporting a format), a count is
\* requested; it is min_image_count + 1, or max_image_count where that is
\* positive and smaller; it lies between min_image_count and
\* max_image_count when max_image_count > 0 and is at least min_image_count
\* otherwise.
C12_CountWithinSurfaceLimits ==
    LET lo == surface.min_image_count
        hi == surface.max_image_count
    IN  (/\ Attempted
         /\ surface.surface_formats # <<>>
         /\ Le(lo, hi) \/ hi = U32(0))
        => /\ Configured
           /\ Le(lo, RequestedCount)
           /\ Gt(hi, U32(0)) => Le(RequestedCount, hi)
           /\ ~AddOne(lo).overflow =>
                  RequestedCount = IF /\ Gt(hi, U32(0))
                                      /\ Gt(AddOne(lo).value, hi)
                                   THEN hi
                                   ELSE AddOne(lo).value

\* C13: the present mode requested is MAILBOX if MAILBOX is among the
\* supported modes and FIFO otherwise, whatever else the surface offers.
C13_MailboxElseFifo ==
    Configured =>
        swapchain.swapchain_create_info.present_mode =
            IF "MAILBOX" \in Range(surface.present_modes)
            THEN "MAILBOX"
            ELSE "FIFO"
C13_Witness ==
    /\ Configured
    /\ surface.present_modes = <<"IMMEDIATE", "MAILBOX">>
    /\ swapchain.swapchain_create_info.present_mode = "MAILBOX"

PreferredFormat ==
    [format |-> "B8G8R8A8_SRGB", color_space |-> "SRGB_NONLINEAR"]
SelectedFormat ==
    [format |-> swapchain.swapchain_create_info.image_format,
     color_space |-> swapchain.swapchain_create_info.image_color_space]

\* C14: for a non-empty list of surface formats, the format and color space
\* requested are B8G8R8A8_SRGB with SRGB_NONLINEAR if that pair is anywhere
\* in the list and those of the first reported format otherwise; the format
\* kept in the bundle is the requested one.
C14_PreferredFormatElseFirst ==
    (Attempted /\ surface.surface_formats # <<>> /\ swapchain # Panicked) =>
        /\ SelectedFormat =
               IF PreferredFormat \in Range(surface.surface_formats)
               THEN PreferredFormat
               ELSE surface.surface_formats[1]
        /\ swapchain.swapchain_format = SelectedFormat.format
C14_Witness ==
    /\ Configured
    /\ Len(surface.surface_formats) = 2
    /\ surface.surface_formats[1].format = "R8G8B8A8_SRGB"
    /\ surface.surface_formats[2] = PreferredFormat
    /\ SelectedFormat = PreferredFormat

WindowExtent == [width |-> surface.width, height |-> surface.height]

\* C15: the extent kept in the bundle is the window's width and height
\* when the reported current extent is the undefined one (its width is
\* u32::MAX), and the reported current extent otherwise.
C15_ExtentResolution ==
    Configured =>
        swapchain.swapchain_extent =
            IF surface.current_extent.width = U32_MAX
            THEN WindowExtent
            ELSE surface.current_extent
C15_Witness ==
    /\ Configured
    /\ surface.current_extent = [width |-> U32_MAX, height |-> U32_MAX]
    /\ swapchain.swapchain_extent = [width |-> U32(1024), height |-> U32(600)]

\* C16 as claimed: the create info handed to create_swapchain carries the
\* resolved extent, the one kept as swapchain_extent.
C16_RequestCarriesResolvedExtent ==
    Configured =>
        swapchain.swapchain_create_info.image_extent =
            swapchain.swapchain_extent

\* ---- per-image and per-slot objects
OfKind(kind) == {h \in Created : h[1] = kind}

\* C17: once the engine is built there are as many image views, as many
\* framebuffers and as many command buffers as the swapchain returned
\* images, one of each per image.
C17_OnePerSwapchainImage ==
    \A kind \in {"image_view", "framebuffer", "command_buffer"} :
        OfKind(kind) = {<<kind, k>> : k \in Images}
C17_Witness ==
    /\ swapchain_images = 1
    /\ Cardinality(OfKind("command_buffer")) = 1
    /\ pc = "idle"
    /\ Len(calls) = 6

SyncKinds ==
    {"image_available_semaphore", "render_finished_semaphore",
     "in_flight_fence"}
TwoSlots ==
    /\ \A kind \in SyncKinds :
           /\ OfKind(kind) = {<<kind, i>> : i \in 0 .. 1}
           /\ destroyed = <<>> => OfKind(kind) \subseteq Live
    /\ DOMAIN in_flight_fences = 0 .. 1
    /\ DOMAIN image_available_semaphores = 0 .. 1
    /\ DOMAIN render_finished_semaphores = 0 .. 1
    /\ current_frame \in 0 .. 1
TickCompletes == pc = "advance" /\ pc' = "idle"

\* C18: whatever the number of swapchain images, there are exactly two
\* slots (two semaphores of each kind and two fences), all alive until Drop
\* starts destroying; current_frame is always 0 or 1; the slot changes to
\* the other one when a tick completes and at no other moment, so
\* consecutive ticks alternate between the slots.
C18_TwoSlotsAlternating ==
    /\ []TwoSlots
    /\ [][current_frame' = IF TickCompletes
                           THEN 1 - current_frame
                           ELSE current_frame]_vars
C18_Witness ==
    /\ swapchain_images = 1
    /\ pc = "idle"
    /\ Len(calls) = 6
    /\ calls[1] = <<"wait_for_fences", 0>>
    /\ current_frame = 1
    /\ armed[0] /\ armed[1]

\* ---- failing calls
\* draw_frame has panicked: the closure was called with RedrawRequested and
\* never returned.
Failed ==
    /\ event = "RedrawRequested"
    /\ pc \in {"drop", "destroy", "dropped", "aborted"}
\* A step of draw_frame that made no call: a call returned an error.
CallFails == InTick /\ pc' # pc /\ calls' = calls
Requests(ops) == {<<op.kind, op.slot, op.image>> : op \in ops}

\* C19: when a call of a tick returns an error, the tick ends there: the
\* thread goes to unwinding or aborts, and neither then nor ever after is
\* another call of draw_frame made, current_frame changed, a request added
\* to the queues, or the swapchain replaced; the calls made are those that
\* came before the failing one, at most wait, acquire, reset, submit.
C19_FailureIsFatal ==
    /\ [](Failed =>
            /\ Len(calls) <= 4
            /\ IsPrefix(calls, TickCalls(current_frame, image_index)))
    /\ [][CallFails =>
            /\ pc' \in {"drop", "aborted"}
            /\ UNCHANGED <<current_frame, gpu, present_queue, images,
                           swapchain, swapchain_images,
                           in_flight_fences>>]_vars
    /\ [][Failed =>
            /\ Failed'
            /\ Requests(gpu') \subseteq Requests(gpu)
            /\ Len(present_queue') <= Len(present_queue)
            /\ UNCHANGED <<calls, current_frame, swapchain,
                           swapchain_images>>]_vars
C19_Witness ==
    /\ Failed
    /\ pc = "aborted"
    /\ calls = <<<<"wait_for_fences", 0>>>>
    /\ current_frame = 0
    /\ armed[0] /\ armed[1]

\* ---- events
\* The engine's fields, its objects and the work it has handed out.
EngineState ==
    <<validation_layers_enabled, swapchain_images, swapchain,
      current_frame, in_flight_fences, image_available_semaphores,
      render_finished_semaphores, image_index, images, gpu, present_queue,
      calls, armed, destroyed>>

\* C20: a tick begins only in the step that delivers a RedrawRequested
\* event, and that step does begin one; no event is delivered while the
\* tick runs, and the calls made since the event are those of one tick at
\* most, so an event drives one tick and one only.  The delivery of any
\* other event but CloseRequested begins no tick, makes no call and leaves
\* the engine's state as it was; an input event leaves the thread and the
\* control flow where they were as well (LoopDestroyed ends the loop that
\* CloseRequested has told to exit).
C20_OneTickPerRedrawOnly ==
    /\ [][(~InTick /\ InTick') =>
            event' = "RedrawRequested" /\ pc' = "wait" /\ calls' = <<>>]_vars
    /\ [][(event' = "RedrawRequested" /\ event' # event) =>
            pc' = "wait"]_vars
    /\ [][InTick => event' = event]_vars
    /\ [](event = "RedrawRequested" =>
            /\ Len(calls) <= 6
            /\ IsPrefix(calls, TickCalls(IF Len(calls) = 6
                                         THEN 1 - current_frame
                                         ELSE current_frame, image_index)))
    /\ [][(event' # event
           /\ event' \notin {"RedrawRequested", "CloseRequested"}) =>
            /\ ~InTick'
            /\ UNCHANGED EngineState
            /\ event' # "LoopDestroyed" =>
                   UNCHANGED <<pc, control_flow>>]_vars
C20_Witness ==
    /\ event = "KeyboardInput"
    /\ pc = "idle"
    /\ Len(calls) = 6
    /\ Submissions # {}
    /\ Presents # {}

\* ---------------------------------------------------------------- C22
\* C22: once main has read VALIDATION_LAYERS, the value "1" has enabled
\* validation, the value "0" or an unset variable has disabled it, and any
\* other value has ended the program with nothing picked or created.
ToggleRead == pc # "main"
C22_ToggleOrFatal ==
    ToggleRead =>
        IF env = Var("1")
        THEN validation_layers_enabled /\ pc # "aborted"
        ELSE IF env = Var("0") \/ env = Unset
             THEN ~validation_layers_enabled /\ pc # "aborted"
             ELSE /\ pc = "aborted"
                  /\ picked = NotPicked
                  /\ swapchain = NotCreated
                  /\ calls = <<>>

\* A value that is set but not valid Unicode went past the match with
\* validation disabled and the engine started to build.
C22_NotUnicodeDisables ==
    /\ env = NotUnicode
    /\ pc = "new"
    /\ ~validation_layers_enabled
    /\ picked # NotPicked

\* ---------------------------------------------------------------- C23
\* C23: viewport and scissor are dynamic state of the pipeline, and the
\* command buffer a tick has submitted sets the viewport and sets the
\* scissor after it binds the pipeline and before its draw.
SetsBetweenBindAndDraw(r, what) ==
    \E b, w, d \in 1 .. Len(r) :
        /\ b < w /\ w < d
        /\ r[b].cmd = "bind_pipeline"
        /\ r[w].cmd = what
        /\ r[d].cmd = "draw"
C23_DynamicStateSetBeforeDraw ==
    /\ dynamic_state = {"VIEWPORT", "SCISSOR"}
    /\ Len(calls) >= 4 =>
          /\ SetsBetweenBindAndDraw(command_buffers[calls[4][3]],
                                    "set_viewport")
          /\ SetsBetweenBindAndDraw(command_buffers[calls[4][3]],
                                    "set_scissor")

\* ---------------------------------------------------------------- C24
\* C24: the command buffer a tick submits is the one whose framebuffer's
\* image view wraps the image the tick acquired, and the tick presents that
\* same image index; command buffer k targets framebuffer k, image view k
\* and image k, and holds exactly begin render pass clearing to opaque
\* black, bind pipeline, draw of 4 vertices and 1 instance, end render pass
\* (what is recorded depends on the image count alone, so it is looked at
\* in the states startup leaves, before the first tick).
BeforeFirstTick ==
    pc = "idle" /\ calls = <<>> /\ armed = [i \in Slots |-> FALSE]
TargetFramebuffer(k) == command_buffers[k][1].framebuffer
TargetImageView(k) ==
    create_framebuffers(swapchain_images)[TargetFramebuffer(k)[2]]
        .attachments[1]
TargetImage(k) ==
    create_image_views(swapchain_images)[TargetImageView(k)[2]].image
C24_SubmittedBufferTargetsAcquiredImage ==
    /\ Len(calls) >= 4 =>
          /\ calls[2][1] = "acquire_next_image"
          /\ calls[4][1] = "queue_submit"
          /\ calls[4][3] \in Images
          /\ TargetImage(calls[4][3]) = image_index
    /\ Len(calls) >= 5 =>
          /\ calls[5][1] = "queue_present"
          /\ calls[5][3] = image_index
    /\ BeforeFirstTick => \A k \in Images :
          /\ TargetFramebuffer(k) = <<"framebuffer", k>>
          /\ TargetImageView(k) = <<"image_view", k>>
          /\ TargetImage(k) = k
          /\ <<"framebuffer", k>> \in Uses(<<"command_buffer", k>>)
          /\ <<"image_view", k>> \in Uses(<<"framebuffer", k>>)
          /\ Len(command_buffers[k]) = 4
          /\ command_buffers[k][1].cmd = "begin_render_pass"
          /\ command_buffers[k][1].clear_values = <<<<0, 0, 0, 1>>>>
          /\ command_buffers[k][2] =
                [cmd |-> "bind_pipeline", pipeline |-> <<"pipeline", 0>>]
          /\ command_buffers[k][3].cmd = "draw"
          /\ command_buffers[k][3].vertex_count = 4
          /\ command_buffers[k][3].instance_count = 1
          /\ command_buffers[k][4] = [cmd |-> "end_render_pass"]
C24_Witness ==
    /\ pc = "advance"
    /\ current_frame = 0
    /\ image_index = 2
    /\ calls[4] = <<"queue_submit", 0, 2>>
    /\ calls[5] = <<"queue_present", 0, 2>>

\* ---------------------------------------------------------------- C30
\* C30: a step of a tick leaves the static frame graph as it was, and
\* current_frame changes only in the tick's last step.  The frame graph is
\* computed from the validation toggle, the image count and the handles
\* destroyed (Created, Live and command_buffers have no other input),
\* together with the swapchain, the surface and the picked device; after a
\* tick every object created is alive and holds what startup recorded.
TickStep == InTick /\ pc' # pc
FrameGraph ==
    <<validation_layers_enabled, swapchain_images, destroyed, swapVars,
      pickVars, mainVars>>
C30_TickChangesOnlyCurrentFrame ==
    /\ [][TickStep =>
            /\ UNCHANGED FrameGraph
            /\ current_frame' # current_frame =>
                  pc = "advance" /\ pc' = "idle"]_vars
    /\ []((pc = "idle" /\ Len(calls) = 6 /\ QueueWork = {}) =>
            /\ Live = Created
            /\ command_buffers = create_command_buffers(swapchain_images)
            /\ DOMAIN command_buffers = Images)
C30_Witness ==
    /\ pc = "idle"
    /\ Len(calls) = 6
    /\ swapchain_images = 3
    /\ current_frame = 1
    /\ armed = [i \in Slots |-> TRUE]
    /\ Live = Created

\* ---------------------------------------------------------------- C29
\* C29: no handle is ever destroyed twice and only created handles are
\* destroyed; once Drop has run through, every object created at startup
\* (the shader modules of create_graphics_pipeline included) has been
\* destroyed exactly once, the command buffers are gone with their pool,
\* and the debug messenger has been destroyed exactly if it was created.
\* (While Drop has destroyed nothing the destroy calls are those of
\* startup: they are looked at in the states startup leaves.)
CallsOf(what, log) ==
    LET Is(c) == c[1] = what
        picked_calls == SelectSeq(log, Is)
    IN  [j \in 1 .. Len(picked_calls) |-> picked_calls[j][2]]
Count(h, s) == Cardinality({j \in 1 .. Len(s) : s[j] = h})
CommandBuffers == Range(PerImage("command_buffer", swapchain_images))
EverCreated == Created \cup Range(CallsOf("create", create_graphics_pipeline))
DestroyCalls == CallsOf("destroy", create_graphics_pipeline) \o destroyed
C29_DestroyedExactlyOnce ==
    /\ (destroyed # <<>> \/ BeforeFirstTick) =>
          \A h \in Range(DestroyCalls) :
             h \in EverCreated /\ Count(h, DestroyCalls) = 1
    /\ pc = "dropped" =>
          /\ \A h \in EverCreated \ CommandBuffers :
                Count(h, DestroyCalls) = 1
          /\ CommandBuffers \subseteq Gone
          /\ Live = {}
          /\ <<"debug_messenger", 0>> \in Range(DestroyCalls)
                <=> <<"debug_messenger", 0>> \in Created
C29_Witness ==
    /\ pc = "dropped"
    /\ validation_layers_enabled
    /\ swapchain_images = 3
    /\ Len(calls) = 6
    /\ Count(<<"debug_messenger", 0>>, DestroyCalls) = 1
    /\ Count(<<"shader_module", 1>>, DestroyCalls) = 1

\* ---------------------------------------------------------------- C25
\* C25: a submission starts its colour-attachment output only when the
\* acquire of its own tick has signalled the image-available semaphore, and
\* a present request is performed only when the submission of its own tick
\* (same slot, same image) has finished executing.
StartsColorOutput(op) ==
    /\ op \in gpu
    /\ op.kind = "submit"
    /\ op.stage = "queued"
    /\ op \notin gpu'
    /\ [op EXCEPT !.stage = "executing"] \in gpu'
PresentPerformed ==
    present_queue # <<>> /\ present_queue' = Tail(present_queue)
C25_SemaphoresOrderGpuWork ==
    [][/\ \A op \in gpu :
             StartsColorOutput(op) =>
                /\ image_available_semaphores[op.slot]
                /\ Op("acquire", op.slot, op.image, "queued") \notin gpu
       /\ PresentPerformed =>
             /\ render_finished_semaphores[Head(present_queue)[1]]
             /\ \A op \in Submissions :
                   ~(/\ op.slot = Head(present_queue)[1]
                     /\ op.image = Head(present_queue)[2])]_vars
\* Three frames have been presented, one has been released again.
C25_Witness ==
    /\ swapchain_images = 3
    /\ \E k \in Images : images[k] = "presented"
    /\ \E k \in Images : images[k] = "free"
    /\ present_queue # <<>>
    /\ \E op \in Submissions : op.stage = "executing"

\* ---------------------------------------------------------------- C27
\* C27: when a tick submits work signalling render_finished[i] no present
\* request waiting on render_finished[i] is still queued; no semaphore is
\* signalled while it is still signalled, and none is handed to a new
\* signal operation while a wait on it is queued.
SignalsRenderFinished(i) ==
    /\ ~render_finished_semaphores[i]
    /\ render_finished_semaphores'[i]
SignalsImageAvailable(i) ==
    /\ ~image_available_semaphores[i]
    /\ image_available_semaphores'[i]
PresentsOn(i) == {op \in Presents : op.slot = i}
C27_NoSignalWhilePending ==
    /\ [](pc = "present" => PresentsOn(current_frame) = {})
    /\ [][/\ \A op \in gpu :
                (op.kind = "submit" /\ op.stage = "executing"
                 /\ op \notin gpu')
                   => SignalsRenderFinished(op.slot)
          /\ \A op \in gpu :
                (op.kind = "acquire" /\ op \notin gpu')
                   => SignalsImageAvailable(op.slot)]_vars
\* Slot i's submission is queued while the present of the slot's previous
\* tick has not yet consumed render_finished[i].
C27_PresentStillQueued ==
    /\ pc = "present"
    /\ PresentsOn(current_frame) # {}

\* ---------------------------------------------------------------- C28
\* C28: when a tick submits the command buffer of the image it acquired,
\* no earlier submission of that command buffer is queued or executing.
C28_NoSimultaneousUse ==
    [][(pc = "submit" /\ pc' = "present") =>
          \A op \in Submissions : op.image # image_index]_vars
\* With a single image its command buffer is submitted again by the
\* other slot, after the first submission has finished and the image has
\* been presented and released.
C28_Witness ==
    /\ swapchain_images = 1
    /\ pc = "present"
    /\ image_index = 0
    /\ armed = [i \in Slots |-> TRUE]
    /\ Cardinality(Submissions) = 1

\* ---------------------------------------------------------------- C21
\* C21: once the closure has been called with CloseRequested, Drop is
\* eventually entered (device_wait_idle is called), unless a call of a
\* tick still in the loop's last iteration fails and aborts the process;
\* and once Drop has been entered no tick starts.
TeardownBegun == pc \in {"drop", "destroy", "dropped"}
TickOver == pc = "idle" /\ Len(calls) = 6
CallFailed == pc \in {"drop", "destroy", "dropped", "aborted"}
PendingOn(i) == {op \in Submissions : op.slot = i}
C26_EveryTickReachesAdvance ==
    /\ InTick ~> (TickOver \/ CallFailed)
    /\ []((pc = "wait" /\ ~armed[current_frame])
             => in_flight_fences[current_frame])
    /\ []((pc = "wait" /\ ~in_flight_fences[current_frame])
             => PendingOn(current_frame) # {})
\* A tick blocked at its fence wait, and a tick blocked at acquire with
\* every image in use.
C26_Witness ==
    /\ pc = "wait"
    /\ ~in_flight_fences[current_frame]
    /\ armed[current_frame]
    /\ swapchain_images = 3
    /\ \A k \in Images : images[k] # "free"

\* ---------------------------------------------------------------- C31
\* C31: the step in which acquire or present returns a suboptimal result
\* is the step of a successful call (the image is acquired, the present
\* request is queued, the thread goes on to the next call), and from there
\* the tick makes the calls of a tick in order up to Advance, unless a
\* later call fails; no object is created or destroyed and the swapchain
\* stays the one built at startup (the objects created are computed from
\* the validation toggle and the image count, the live ones from these and
\* the handles destroyed).
ReturnsSuboptimal == sub_optimal' # {} /\ sub_optimal' # sub_optimal
NothingRecreated ==
    UNCHANGED <<validation_layers_enabled, swapchain_images, swapchain,
                destroyed>>
C31_SuboptimalIsSuccess ==
    /\ [](sub_optimal # {} =>
            /\ pc \in {"reset", "submit", "present", "advance"}
            /\ IsPrefix(calls, TickCalls(current_frame, image_index))
            /\ destroyed = <<>>)
    /\ [][ReturnsSuboptimal =>
            /\ \/ /\ pc = "acquire"
                  /\ pc' = "reset"
                  /\ image_index' \in Images
                  /\ images'[image_index'] = "acquired"
                  /\ calls' = Append(calls, <<"acquire_next_image",
                                              current_frame>>)
               \/ /\ pc = "present"
                  /\ pc' = "advance"
                  /\ present_queue' =
                        Append(present_queue, <<current_frame, image_index>>)
                  /\ calls' = Append(calls, <<"queue_present",
                                              current_frame, image_index>>)
            /\ UNCHANGED current_frame
            /\ NothingRecreated]_vars
    /\ [][(sub_optimal # {} /\ pc' # pc) =>
            /\ \/ /\ pc' \in {"submit", "present", "advance"}
                  /\ Len(calls') = Len(calls) + 1
                  /\ IsPrefix(calls', TickCalls(current_frame, image_index))
                  /\ UNCHANGED current_frame
               \/ /\ pc = "advance"
                  /\ pc' = "idle"
                  /\ calls' = TickCalls(current_frame, image_index)
                  /\ current_frame' =
                        (current_frame + 1) % MAX_FRAMES_IN_FLIGHT
               \/ /\ pc \in {"reset", "submit", "present"}
                  /\ pc' \in {"drop", "aborted"}
                  /\ calls' = calls
            /\ NothingRecreated]_vars
\* Acquire and present of one tick both returned suboptimal and the tick
\* stands before Advance with its five calls made.
C31_Witness ==
    /\ pc = "advance"
    /\ sub_optimal = {"acquire_next_image", "queue_present"}
    /\ Len(calls) = 5
    /\ armed = [i \in Slots |-> TRUE]
    /\ present_queue # <<>>

====
